---------------------------- MODULE Spec2Model ----------------------------
(***************************************************************************)
(* embed-sync (src/src/index.ts): scanning of markdown documents for       *)
(* embed directives, extraction of declarations and the in-place rewrite   *)
(* of the marker bodies.                                                   *)
(*                                                                         *)
(* Text is modelled character by character: a string is a sequence of      *)
(* one-character strings and every offset is the 0-based offset of the     *)
(* JavaScript source.  Two characters have no literal in a TLA+ string:    *)
(* the em dash of the attribution line is the element "u2014" and the      *)
(* backquote of the code fence is the element "bq".                        *)
(***************************************************************************)
EXTENDS Integers, Sequences, FiniteSets, TLC

VARIABLES
    \* applyEmbeds
    content, env, directives, sorted, k, result, errors, ways, output, pc, run, hist

    ,
    \* main
    argv, matched, unreadable, unwritable, disk, diskAtStart, todo, processed, allErrors,
    totalDirectives, totalUpdated, writes, thrown, exitCode, mpc,
    \* findDirectives
    chunks, doc, lastIndex, openMarkers, found, si, spc,
    \* extractTsSymbol
    tsSource, tsUnit, tsSymbol, tsNode, tsResult, tpc,
    \* findMatchingBrace
    bsrc, openPos, bi, depth, inString, stringChar, inLineComment,
    inBlockComment, inVerbatim, bres, bpc,
    \* extractCsSymbol
    csSource, csSymbol, csTier, csDeclStart, csAfter, csResult, cpc

applyVars == <<content, env, directives, sorted, k, result, errors, ways, output, pc, run, hist>>

mainVars == <<argv, matched, unreadable, unwritable, disk, diskAtStart, todo, processed, allErrors,
              totalDirectives, totalUpdated, writes, thrown, exitCode, mpc>>

scanVars == <<chunks, doc, lastIndex, openMarkers, found, si, spc>>

tsVars == <<tsSource, tsUnit, tsSymbol, tsNode, tsResult, tpc>>

braceVars == <<bsrc, openPos, bi, depth, inString, stringChar, inLineComment,
               inBlockComment, inVerbatim, bres, bpc>>

csVars == <<csSource, csSymbol, csTier, csDeclStart, csAfter, csResult, cpc>>

\* the state of the functions that are explored on their own
pureVars == <<scanVars, tsVars, braceVars, csVars>>

vars == <<applyVars, mainVars, pureVars>>

---------------------------------------------------------------------------
(* String primitives of the JavaScript runtime, as the program uses them.  *)

\* The characters \s matches and trim() strips: WhiteSpace and LineTerminator
\* of ECMAScript.  The ones a string of this module cannot hold stand under
\* their code point: "u000B" is the vertical tab, "u00A0" the no-break
\* space, "uFEFF" the byte order mark, "u2028" and "u2029" the line and
\* paragraph separators, the others the space separators of Unicode.
Ws ==
    {" ", "\t", "\n", "\r", "\f", "u000B", "u00A0", "uFEFF", "u2028", "u2029",
     "u1680", "u2000", "u2001", "u2002", "u2003", "u2004", "u2005", "u2006",
     "u2007", "u2008", "u2009", "u200A", "u202F", "u205F", "u3000"}

IsWs(c) == c \in Ws

\* s[i]: undefined ("EOF") outside the string
At(s, i) == IF i >= 0 /\ i < Len(s) THEN s[i + 1] ELSE "EOF"

Clamp(s, i) == IF i < 0 THEN 0 ELSE IF i > Len(s) THEN Len(s) ELSE i

\* String.prototype.substring(a, b): arguments clamped to [0, length] and
\* swapped when a > b
Substring(s, a, b) ==
    LET ca == Clamp(s, a)
        cb == Clamp(s, b)
        lo == IF ca <= cb THEN ca ELSE cb
        hi == IF ca <= cb THEN cb ELSE ca
    IN  SubSeq(s, lo + 1, hi)

SubstringFrom(s, a) == Substring(s, a, Len(s))

StartsWithAt(s, i, pat) ==
    /\ i >= 0
    /\ i + Len(pat) <= Len(s)
    /\ \A j \in 1..Len(pat) : s[i + j] = pat[j]

MinOf(S) == CHOOSE x \in S : \A y \in S : x <= y

\* String.prototype.indexOf(pat, from): -1 when absent
IndexOf(s, pat, from) ==
    LET hits == {i \in from..(Len(s) - Len(pat)) : StartsWithAt(s, i, pat)}
    IN  IF hits = {} THEN -1 ELSE MinOf(hits)

\* the offset after a greedy \s* that starts at i
RECURSIVE SkipWs(_, _)
SkipWs(s, i) == IF i < Len(s) /\ IsWs(s[i + 1]) THEN SkipWs(s, i + 1) ELSE i

\* the offset after the maximal run of \S that starts at i
RECURSIVE SkipNonWs(_, _)
SkipNonWs(s, i) == IF i < Len(s) /\ ~IsWs(s[i + 1]) THEN SkipNonWs(s, i + 1) ELSE i

RECURSIVE TrimEnd(_)
TrimEnd(s) == IF Len(s) > 0 /\ IsWs(s[Len(s)]) THEN TrimEnd(SubSeq(s, 1, Len(s) - 1)) ELSE s

TrimStart(s) == SubSeq(s, SkipWs(s, 0) + 1, Len(s))

Trim(s) == TrimEnd(TrimStart(s))

\* Array.prototype.join("\n")
RECURSIVE JoinLines(_)
JoinLines(ls) ==
    IF Len(ls) = 0 THEN <<>>
    ELSE IF Len(ls) = 1 THEN ls[1]
    ELSE ls[1] \o <<"\n">> \o JoinLines(Tail(ls))

---------------------------------------------------------------------------
(* Literals of the program.                                                *)

CommentOpen == <<"<","!","-","-">>

CommentClose == <<"-","-",">">>

TsEmbed == <<"t","s","-","e","m","b","e","d">>

CsEmbed == <<"c","s","-","e","m","b","e","d">>

Fence == <<"bq","bq","bq">>

AttributionLine ==
    <<"/","/"," ","@","g","e","n","e","r","a","t","e","d"," ","b","y"," ","e","m","b","e","d","-","s","y","n","c"," ","u2014"," ","d","o"," ","n","o","t"," ","e","d","i","t">>

\* kind-embed
Tag(kind) == IF kind = "ts" THEN TsEmbed ELSE CsEmbed

\* the close tag of a kind
CloseTag(kind) == CommentOpen \o <<" ", "/">> \o Tag(kind) \o <<" ">> \o CommentClose

Lang(kind) == IF kind = "ts" THEN <<"t","s">> ELSE <<"c","s","h","a","r","p">>

NoClose == -1

---------------------------------------------------------------------------
(* Markdown scanning: findDirectives.                                      *)

NoMatch == [ok |-> FALSE]

\* One attempt of /<!--\s*(ts-embed|cs-embed)\s*:\s*([^#]+)#(\S+?)\s*-->/ at
\* offset p.  [^#]+ runs to the first "#" whatever lies between (it needs one
\* character, which \s* gives back when the gap is all whitespace); \S+? is
\* the shortest non-empty run of non-whitespace after which \s*--> matches.
MarkerMatchAt(s, p) ==
    IF ~StartsWithAt(s, p, CommentOpen) THEN NoMatch
    ELSE
    LET q1   == SkipWs(s, p + 4)
        kind == IF StartsWithAt(s, q1, TsEmbed) THEN "ts"
                ELSE IF StartsWithAt(s, q1, CsEmbed) THEN "cs" ELSE "none"
        q2   == SkipWs(s, q1 + 8)
        q3   == q2 + 1
        h    == IndexOf(s, <<"#">>, q3)
        runEnd == SkipNonWs(s, h + 1)
        ends == {e \in (h + 2)..runEnd : StartsWithAt(s, SkipWs(s, e), CommentClose)}
        e    == MinOf(ends)
    IN  IF kind = "none" \/ At(s, q2) # ":" THEN NoMatch
        ELSE IF h = -1 \/ h = q3 THEN NoMatch
        ELSE IF ends = {} THEN NoMatch
        ELSE [ok |-> TRUE,
              index |-> p,
              length |-> SkipWs(s, e) + 3 - p,
              kind |-> kind,
              sourcePath |-> Trim(Substring(s, q3, h)),
              symbolName |-> Trim(Substring(s, h + 1, e))]

\* markerRe.exec from lastIndex: the leftmost offset at which the regex matches
NextMarker(s, from) ==
    LET hits == {p \in from..(Len(s) - 1) : s[p + 1] = "<" /\ MarkerMatchAt(s, p).ok}
    IN  IF hits = {} THEN NoMatch ELSE MarkerMatchAt(s, MinOf(hits))

\* first pass: every open marker, in order of appearance
RECURSIVE OpenMarkersFrom(_, _)
OpenMarkersFrom(s, from) ==
    LET m == NextMarker(s, from)
    IN  IF ~m.ok THEN <<>>
        ELSE <<m>> \o OpenMarkersFrom(s, m.index + m.length)

OpenMarkers(s) == OpenMarkersFrom(s, 0)

\* content.substring(0, index).split("\n").length
LineNumber(s, index) == Cardinality({i \in 1..index : s[i] = "\n"}) + 1

\* the close tag is looked for in the whole rest of the document
CloseEndUnbounded(s, ms, i) ==
    LET m == ms[i]
        searchStart == m.index + m.length
        closeTag == CloseTag(m.kind)
        idx == IndexOf(s, closeTag, searchStart)
    IN  IF idx # -1 THEN idx + Len(closeTag) ELSE NoClose

\* second pass, one marker: the close tag is looked for only between this
\* marker and the next open marker
CloseEnd(s, ms, i) ==
    LET m == ms[i]
        searchStart == m.index + m.length
        searchEnd == IF i + 1 <= Len(ms) THEN ms[i + 1].index ELSE Len(s)
        searchRegion == Substring(s, searchStart, searchEnd)
        closeTag == CloseTag(m.kind)
        closeRelIdx == IndexOf(searchRegion, closeTag, 0)
    IN  IF closeRelIdx # -1 THEN searchStart + closeRelIdx + Len(closeTag) ELSE NoClose

DirectiveOf(s, ms, i) ==
    [kind |-> ms[i].kind,
     sourcePath |-> ms[i].sourcePath,
     symbolName |-> ms[i].symbolName,
     lineNumber |-> LineNumber(s, ms[i].index),
     startIndex |-> ms[i].index,
     endIndex |-> CloseEnd(s, ms, i)]

FindDirectives(s) ==
    LET ms == OpenMarkers(s)
    IN  [i \in 1..Len(ms) |-> DirectiveOf(s, ms, i)]

---------------------------------------------------------------------------
(* Resolution: resolveEmbed.  The file system and the two extractors are   *)
(* the environment e of a run: e.mdDir is the directory of the documents,  *)
(* the names from the root down to it; e.refs maps a reference (kind,      *)
(* path, symbol), its path written from that directory, to what the        *)
(* extractor yields for it.  A file exists when a reference to it is not   *)
(* NoFile, and an extractor finds in it what e.refs says and nothing else. *)
(* The directories that exist are the ones down to the documents and the   *)
(* ones down to an existing file.                                          *)

NoFile == [status |-> "nofile", code |-> <<>>]

NoSymbol == [status |-> "nosymbol", code |-> <<>>]

Found(code) == [status |-> "found", code |-> code]

\* the segments of a path between its "/"
PathSegments(p) ==
    LET cuts == {0, Len(p) + 1} \cup {i \in 1..Len(p) : p[i] = "/"}
        nth(j) == CHOOSE c \in cuts : Cardinality({d \in cuts : d < c}) = j - 1
    IN  [j \in 1..(Cardinality(cuts) - 1) |-> SubSeq(p, nth(j) + 1, nth(j + 1) - 1)]

\* the segments from the j-th on, taken from the place at (the names from
\* the root down to it): an empty segment and "." stay, ".." goes one
\* level up and stays at the root, a name goes down
RECURSIVE WalkPath(_, _, _)
WalkPath(segs, j, at) ==
    IF j > Len(segs) THEN at
    ELSE IF segs[j] = <<>> \/ segs[j] = <<".">> THEN WalkPath(segs, j + 1, at)
    ELSE IF segs[j] # <<".", ".">> THEN WalkPath(segs, j + 1, Append(at, segs[j]))
    ELSE IF at = <<>> THEN WalkPath(segs, j + 1, at)
    ELSE WalkPath(segs, j + 1, SubSeq(at, 1, Len(at) - 1))

\* path.resolve(mdDir, sourcePath): the names from the root down to the
\* place; a path that begins with "/" is taken from the root
AbsSource(sourcePath, mdDir) ==
    WalkPath(PathSegments(sourcePath), 1, IF At(sourcePath, 0) = "/" THEN <<>> ELSE mdDir)

\* the place of a file of the environment: a reference to it is not NoFile
IsFile(place, e) ==
    \E ref \in DOMAIN e.refs :
        e.refs[ref].status # "nofile" /\ AbsSource(ref[2], e.mdDir) = place

\* the path resolves to a directory that exists: the directory of the
\* documents, one above it, the root, or one on the way down to a file.
\* existsSync is true for it and readFileSync throws EISDIR.
IsDirectory(sourcePath, e) ==
    LET place == AbsSource(sourcePath, e.mdDir)
    IN  \/ StartsWithAt(e.mdDir, 0, place)
        \/ \E ref \in DOMAIN e.refs :
              /\ e.refs[ref].status # "nofile"
              /\ Len(place) < Len(AbsSource(ref[2], e.mdDir))
              /\ StartsWithAt(AbsSource(ref[2], e.mdDir), 0, place)

\* fs.existsSync(absSource): a file or a directory
FileExists(sourcePath, e) ==
    IsDirectory(sourcePath, e) \/ IsFile(AbsSource(sourcePath, e.mdDir), e)

\* threw: readFileSync throws EISDIR out of the extractor and of
\* resolveEmbed, for a path that exists and is a directory
ResolveEmbed(dir, e) ==
    LET hits == {ref \in DOMAIN e.refs :
                    /\ ref[1] = dir.kind
                    /\ ref[3] = dir.symbolName
                    /\ e.refs[ref].status = "found"
                    /\ AbsSource(ref[2], e.mdDir) = AbsSource(dir.sourcePath, e.mdDir)}
    IN  IF ~FileExists(dir.sourcePath, e)
        THEN [code |-> <<>>, error |-> <<"File not found", dir.sourcePath>>, threw |-> FALSE]
        ELSE IF IsDirectory(dir.sourcePath, e)
        THEN [code |-> <<>>, error |-> <<>>, threw |-> TRUE]
        ELSE IF hits = {}
        THEN [code |-> <<>>, error |-> <<"Symbol not found", dir.symbolName, dir.sourcePath>>,
              threw |-> FALSE]
        ELSE [code |-> e.refs[CHOOSE ref \in hits : TRUE].code, error |-> <<>>, threw |-> FALSE]

---------------------------------------------------------------------------
(* Rewrite: applyEmbeds.                                                   *)

RECURSIVE InsertDesc(_, _)
InsertDesc(d, ds) ==
    IF ds = <<>> THEN <<d>>
    ELSE IF d.startIndex >= ds[1].startIndex THEN <<d>> \o ds
    ELSE <<ds[1]>> \o InsertDesc(d, Tail(ds))

RECURSIVE InsertAsc(_, _)
InsertAsc(d, ds) ==
    IF ds = <<>> THEN <<d>>
    ELSE IF d.startIndex <= ds[1].startIndex THEN <<d>> \o ds
    ELSE <<ds[1]>> \o InsertAsc(d, Tail(ds))

RECURSIVE SortAscending(_)
SortAscending(ds) == IF ds = <<>> THEN <<>> ELSE InsertAsc(ds[1], SortAscending(Tail(ds)))

\* [...directives].sort((a, b) => b.startIndex - a.startIndex)
RECURSIVE SortDescending(_)
SortDescending(ds) == IF ds = <<>> THEN <<>> ELSE InsertDesc(ds[1], SortDescending(Tail(ds)))

CodeBlock(kind, code) ==
    JoinLines(<<Fence \o Lang(kind), AttributionLine, code, Fence, CloseTag(kind)>>)

\* One attempt, at offset p, of the regex built from the directive:
\* <!--\s*TAG\s*:\s*PATH#SYMBOL\s*--> with PATH and SYMBOL matched literally
\* (escapeRegex).  The offset after the match, or -1.
OpenMarkerEndAt(s, p, dir) ==
    LET q1 == SkipWs(s, p + 4)
        q2 == SkipWs(s, q1 + 8)
        q3 == SkipWs(s, q2 + 1)
        q4 == q3 + Len(dir.sourcePath)
        q5 == q4 + 1 + Len(dir.symbolName)
        q6 == SkipWs(s, q5)
    IN  IF /\ StartsWithAt(s, p, CommentOpen)
           /\ StartsWithAt(s, q1, Tag(dir.kind))
           /\ At(s, q2) = ":"
           /\ StartsWithAt(s, q3, dir.sourcePath)
           /\ At(s, q4) = "#"
           /\ StartsWithAt(s, q4 + 1, dir.symbolName)
           /\ StartsWithAt(s, q6, CommentClose)
        THEN q6 + 3 ELSE -1

\* openMarkerRe.exec(result.substring(dir.startIndex)): the regex is not
\* anchored, so the leftmost match at or after startIndex is taken.
\* dir.startIndex + openMatch.index + openMatch[0].length, or -1 for no match.
AbsOpenEnd(s, dir) ==
    LET hits == {p \in dir.startIndex..(Len(s) - 1) :
                    s[p + 1] = "<" /\ OpenMarkerEndAt(s, p, dir) # -1}
    IN  IF hits = {} THEN -1 ELSE OpenMarkerEndAt(s, MinOf(hits), dir)

ErrorReport(dir, resolved) ==
    [lineNumber |-> dir.lineNumber,
     reason |-> resolved.error,
     sourcePath |-> dir.sourcePath,
     symbolName |-> dir.symbolName]

\* The body of the for loop, for one directive: the text and the error list
\* after it, and which way the iteration went ("threw": resolveEmbed threw
\* and the loop is left).
ApplyOne(res, errs, dir, e) ==
    LET resolved == ResolveEmbed(dir, e)
        absOpenEnd == AbsOpenEnd(res, dir)
        replaceEnd == IF dir.endIndex # NoClose THEN dir.endIndex ELSE absOpenEnd
        before == Substring(res, 0, absOpenEnd)
        after == SubstringFrom(res, replaceEnd)
        insertion == <<"\n">> \o CodeBlock(dir.kind, resolved.code)
    IN  IF resolved.threw
        THEN [result |-> res, errors |-> errs, way |-> "threw"]
        ELSE IF resolved.error # <<>>
        THEN [result |-> res, errors |-> Append(errs, ErrorReport(dir, resolved)), way |-> "error"]
        ELSE IF absOpenEnd = -1
        THEN [result |-> res, errors |-> errs, way |-> "nomatch"]
        ELSE [result |-> before \o insertion \o after, errors |-> errs, way |-> "rewritten"]

RECURSIVE ApplyAll(_, _, _, _)
ApplyAll(res, errs, ds, e) ==
    IF ds = <<>> THEN [output |-> res, errors |-> errs, threw |-> FALSE]
    ELSE LET r == ApplyOne(res, errs, ds[1], e)
         IN  IF r.way = "threw" THEN [output |-> res, errors |-> errs, threw |-> TRUE]
             ELSE ApplyAll(r.result, r.errors, Tail(ds), e)

\* applyEmbeds from the directives found: none, the content as it is;
\* otherwise the loop over the directives sorted by descending startIndex.
\* threw: an exception left applyEmbeds and nothing is returned.
ApplyTo(c, ds, e) ==
    IF Len(ds) = 0 THEN [output |-> c, errors |-> <<>>, threw |-> FALSE]
    ELSE ApplyAll(c, <<>>, SortDescending(ds), e)

\* applyEmbeds(content, mdFilePath) as a function
ApplyEmbeds(c, e) == ApplyTo(c, FindDirectives(c), e)

---------------------------------------------------------------------------
(* Inputs: documents are built from a few pieces of markdown, the          *)
(* environment from a few outcomes of the extractors.                      *)

MaxChunks == 4

MaxRuns == 2

MarkerA ==
    <<"<","!","-","-"," ","t","s","-","e","m","b","e","d",":"," ","a","#","X"," ","-","-",">">>

\* the same reference, with a blank between the path and the "#"
MarkerASp ==
    <<"<","!","-","-"," ","t","s","-","e","m","b","e","d",":"," ","a"," ","#","X"," ","-","-",">">>

MarkerB ==
    <<"<","!","-","-"," ","c","s","-","e","m","b","e","d",":"," ","b","#","Y"," ","-","-",">">>

\* a marker with a form feed for its first blank
MarkerAFf ==
    <<"<","!","-","-","\f","t","s","-","e","m","b","e","d",":"," ","a","#","X"," ","-","-",">">>

\* a marker without a path: the reference resolves to the directory of the
\* document
MarkerDir ==
    <<"<","!","-","-"," ","t","s","-","e","m","b","e","d",":"," ","#","X"," ","-","-",">">>

\* marker-like comments that are not open markers: no "#", no kind
MalformedNoHash ==
    <<"<","!","-","-"," ","t","s","-","e","m","b","e","d",":"," ","z","z"," ","-","-",">">>

MalformedNoKind ==
    <<"<","!","-","-"," ","e","m","b","e","d",":"," ","a","#","X"," ","-","-",">">>

PlainText == <<"t","\n">>

CodeShort ==
    <<"t","y","p","e"," ","X"," ","="," ","1",";">>

\* a declaration whose text holds the close tag
CodeWithClose ==
    <<"c","o","n","s","t"," ","X"," ","="," ","\"","<","!","-","-"," ","/","t","s","-","e","m","b","e","d"," ","-","-",">","\"",";">>

CodeCs ==
    <<"e","n","u","m"," ","Y"," ","{"," ","}">>

ChunkText(c) ==
    CASE c = "T" -> PlainText
      [] c = "MA" -> MarkerA
      [] c = "MAs" -> MarkerASp
      [] c = "MB" -> MarkerB
      [] c = "MAf" -> MarkerAFf
      [] c = "MD" -> MarkerDir
      [] c = "NoHash" -> MalformedNoHash
      [] c = "NoKind" -> MalformedNoKind
      [] c = "CT" -> CloseTag("ts")
      [] c = "CC" -> CloseTag("cs")

RECURSIVE Flatten(_)
Flatten(cs) == IF cs = <<>> THEN <<>> ELSE ChunkText(cs[1]) \o Flatten(Tail(cs))

ChunkSeqs(C, n) == UNION {[1..m -> C] : m \in 0..n}

ApplyChunks == {"T", "MA", "MAs", "MB", "MD", "NoHash", "CT", "CC"}

RefA == <<"ts", <<"a">>, <<"X">>>>

RefB == <<"cs", <<"b">>, <<"Y">>>>

\* the directory of the documents
DocDir == << <<"d","o","c","s">> >>

Envs ==
    {[mdDir |-> DocDir, refs |-> (RefA :> a) @@ (RefB :> b)] :
        a \in {NoSymbol, Found(CodeShort), Found(CodeWithClose)},
        b \in {NoFile, Found(CodeCs)}}

---------------------------------------------------------------------------
(* applyEmbeds, one iteration of its loop per step, and the next run of    *)
(* the tool on the text the last run returned.                             *)

ScanIdle ==
    /\ chunks = <<>>
    /\ doc = <<>>
    /\ lastIndex = 0
    /\ openMarkers = <<>>
    /\ found = <<>>
    /\ si = 0
    /\ spc = "idle"

TsIdle ==
    /\ tsSource = <<>>
    /\ tsUnit = <<>>
    /\ tsSymbol = <<>>
    /\ tsNode = <<>>
    /\ tsResult = <<>>
    /\ tpc = "idle"

CsIdle ==
    /\ csSource = <<>>
    /\ csSymbol = <<>>
    /\ csTier = "none"
    /\ csDeclStart = 0
    /\ csAfter = 0
    /\ csResult = <<>>
    /\ cpc = "idle"

BraceIdle ==
    /\ bsrc = <<>>
    /\ openPos = 0
    /\ bi = 0
    /\ depth = 0
    /\ inString = FALSE
    /\ stringChar = ""
    /\ inLineComment = FALSE
    /\ inBlockComment = FALSE
    /\ inVerbatim = FALSE
    /\ bres = -1
    /\ bpc = "idle"

\* main is not running
MainIdle ==
    /\ argv = FALSE
    /\ matched = <<>>
    /\ unreadable = {}
    /\ unwritable = {}
    /\ disk = <<>>
    /\ diskAtStart = <<>>
    /\ todo = <<>>
    /\ processed = <<>>
    /\ allErrors = <<>>
    /\ totalDirectives = 0
    /\ totalUpdated = 0
    /\ writes = <<>>
    /\ thrown = FALSE
    /\ exitCode = -1
    /\ mpc = "idle"

ApplyInit ==
    /\ \E cs \in ChunkSeqs(ApplyChunks, MaxChunks) : content = Flatten(cs)
    /\ env \in Envs
    /\ directives = <<>>
    /\ sorted = <<>>
    /\ k = 0
    /\ result = <<>>
    /\ errors = <<>>
    /\ ways = <<>>
    /\ output = <<>>
    /\ pc = "start"
    /\ run = 1
    /\ hist = <<>>
    /\ MainIdle
    /\ ScanIdle
    /\ TsIdle
    /\ BraceIdle
    /\ CsIdle

RunRecord(out, errs, ws) == [input |-> content, output |-> out, errors |-> errs, ways |-> ws]

\* no directive: the content is returned as it is
ApplyNoDirectives ==
    /\ pc = "start"
    /\ Len(FindDirectives(content)) = 0
    /\ directives' = <<>>
    /\ output' = content
    /\ pc' = "done"
    /\ hist' = Append(hist, RunRecord(content, <<>>, <<>>))
    /\ UNCHANGED <<content, env, sorted, k, result, errors, ways, run>>
    /\ UNCHANGED <<mainVars, pureVars>>

ApplyScan ==
    /\ pc = "start"
    /\ Len(FindDirectives(content)) > 0
    /\ directives' = FindDirectives(content)
    /\ sorted' = SortDescending(directives')
    /\ result' = content
    /\ errors' = <<>>
    /\ ways' = <<>>
    /\ k' = 1
    /\ pc' = "loop"
    /\ UNCHANGED <<content, env, output, run, hist>>
    /\ UNCHANGED <<mainVars, pureVars>>

ApplyDirective ==
    /\ pc = "loop"
    /\ k <= Len(sorted)
    /\ LET r == ApplyOne(result, errors, sorted[k], env)
       IN  /\ r.way # "threw"
           /\ result' = r.result
           /\ errors' = r.errors
           /\ ways' = Append(ways, r.way)
    /\ k' = k + 1
    /\ UNCHANGED <<content, env, directives, sorted, output, pc, run, hist>>
    /\ UNCHANGED <<mainVars, pureVars>>

\* resolveEmbed throws: the exception leaves applyEmbeds, nothing is returned
ApplyThrow ==
    /\ pc = "loop"
    /\ k <= Len(sorted)
    /\ ResolveEmbed(sorted[k], env).threw
    /\ pc' = "thrown"
    /\ UNCHANGED <<content, env, directives, sorted, k, result, errors, ways, output, run, hist>>
    /\ UNCHANGED <<mainVars, pureVars>>

ApplyReturn ==
    /\ pc = "loop"
    /\ k > Len(sorted)
    /\ output' = result
    /\ pc' = "done"
    /\ hist' = Append(hist, RunRecord(result, errors, ways))
    /\ UNCHANGED <<content, env, directives, sorted, k, result, errors, ways, run>>
    /\ UNCHANGED <<mainVars, pureVars>>

\* the tool is run again on its own output, the sources unchanged
Rerun ==
    /\ pc = "done"
    /\ run < MaxRuns
    /\ content' = output
    /\ run' = run + 1
    /\ pc' = "start"
    /\ directives' = <<>>
    /\ sorted' = <<>>
    /\ k' = 0
    /\ result' = <<>>
    /\ errors' = <<>>
    /\ ways' = <<>>
    /\ output' = <<>>
    /\ UNCHANGED <<env, hist>>
    /\ UNCHANGED <<mainVars, pureVars>>

ApplyNext ==
    \/ ApplyNoDirectives
    \/ ApplyScan
    \/ ApplyDirective
    \/ ApplyThrow
    \/ ApplyReturn
    \/ Rerun

Spec == ApplyInit /\ [][ApplyNext]_vars

---------------------------------------------------------------------------
(* Claims about applyEmbeds.                                               *)

Contains(s, pat) == IndexOf(s, pat, 0) # -1

Fails(d) == ResolveEmbed(d, env).error # <<>>

Throws(d) == ResolveEmbed(d, env).threw

\* the end of the open marker the scanner matched for a directive of content
MarkerEnd(d) == d.startIndex + MarkerMatchAt(content, d.startIndex).length

\* the end of a directive's span in content: its close marker, or the end of
\* its open marker when it has none
SpanEnd(d) == IF d.endIndex # NoClose THEN d.endIndex ELSE MarkerEnd(d)

\* C1: idempotence.  When every directive of a run resolved, the next run
\* on that run's output, with the same sources, returns the same text.
C1_Idempotent ==
    (Len(hist) >= 2 /\ hist[1].errors = <<>>) => hist[2].output = hist[1].output

\* C2: offset safety.  Directives are processed in strictly descending
\* startIndex, and when a directive is about to be processed the current
\* text equals the original document from offset 0 to the end of that
\* directive's span.
C2_OffsetSafety ==
    pc = "loop" =>
        /\ \A j \in 1..(Len(sorted) - 1) : sorted[j].startIndex > sorted[j + 1].startIndex
        /\ k <= Len(sorted) =>
              /\ Len(result) >= SpanEnd(sorted[k])
              /\ Substring(result, 0, SpanEnd(sorted[k])) = Substring(content, 0, SpanEnd(sorted[k]))

\* a directive is about to be processed after later directives were
\* rewritten with a block of another length than the span it replaced
C2_Witness ==
    /\ pc = "loop"
    /\ k > 1
    /\ k <= Len(sorted)
    /\ Len(result) # Len(content)
    /\ sorted[k].endIndex # NoClose

RECURSIVE FailureReports(_)
FailureReports(ds) ==
    IF ds = <<>> THEN <<>>
    ELSE IF Fails(ds[1])
         THEN <<ErrorReport(ds[1], ResolveEmbed(ds[1], env))>> \o FailureReports(Tail(ds))
         ELSE FailureReports(Tail(ds))

\* C3: isolation of failure.  After a run in which a directive failed, the
\* text of each failing directive (marker and body) stands in the output as
\* it stood in the input, the error list holds one report per failing
\* directive with its line, path and symbol, and each sibling that resolved
\* was rewritten and its block stands in the output.
C3_Isolation ==
    (pc = "done" /\ run = 1 /\ \E i \in 1..Len(sorted) : Fails(sorted[i])) =>
        /\ \A i \in 1..Len(sorted) :
              Fails(sorted[i]) =>
                  Contains(output, Substring(content, sorted[i].startIndex, SpanEnd(sorted[i])))
        /\ errors = FailureReports(sorted)
        /\ \A i \in 1..Len(sorted) :
              ~Fails(sorted[i]) =>
                  /\ ways[i] = "rewritten"
                  /\ Contains(output, <<"\n">> \o CodeBlock(sorted[i].kind, ResolveEmbed(sorted[i], env).code))

\* the directive the loop is about to process resolves and its re-match
\* succeeds: the iteration is going to rewrite the text
AboutToRewrite ==
    /\ pc = "loop"
    /\ k <= Len(sorted)
    /\ ~Fails(sorted[k])
    /\ ~Throws(sorted[k])
    /\ AbsOpenEnd(result, sorted[k]) # -1

\* C11: anchored re-match.  When a resolved directive is rewritten, the
\* marker text matched in the current text begins at the directive's
\* recorded startIndex, so the insertion point is the end of the
\* directive's own open marker and does not lie beyond its recorded
\* endIndex.
C11_AnchoredRematch ==
    AboutToRewrite =>
        /\ OpenMarkerEndAt(result, sorted[k].startIndex, sorted[k]) = AbsOpenEnd(result, sorted[k])
        /\ AbsOpenEnd(result, sorted[k]) = MarkerEnd(sorted[k])
        /\ sorted[k].endIndex # NoClose => AbsOpenEnd(result, sorted[k]) <= sorted[k].endIndex

\* the text with the generated block of directive d put right after the
\* open marker of d, nothing taken away
BlockInserted(s, d) ==
    Substring(s, 0, MarkerEnd(d))
        \o <<"\n">> \o CodeBlock(d.kind, ResolveEmbed(d, env).code)
        \o SubstringFrom(s, MarkerEnd(d))

\* C13: insertion without deletion.  The iteration for a resolved directive
\* without a close marker gives the text it had with the generated block
\* inserted right after the directive's open marker, and nothing deleted.
C13_InsertOnly ==
    [][(/\ pc = "loop"
        /\ k <= Len(sorted)
        /\ k' = k + 1
        /\ ~Fails(sorted[k])
        /\ sorted[k].endIndex = NoClose)
       => result' = BlockInserted(result, sorted[k])]_vars

\* C14: every directive is accounted for.  At the return each directive
\* was either rewritten or reported, and the number of error reports is
\* the number of directives that were not rewritten.
C14_Accounted ==
    pc = "done" =>
        /\ \A i \in 1..Len(ways) : ways[i] \in {"rewritten", "error"}
        /\ Len(errors) = Cardinality({i \in 1..Len(ways) : ways[i] # "rewritten"})

---------------------------------------------------------------------------
(* main: one run of the tool over the documents its patterns match, and    *)
(* the next run over the documents as the last run left them.              *)

MaxMainChunks == 2

Files == {"f1", "f2"}

MainChunks == {"T", "MA", "MB", "MD"}

MainDocs == {Flatten(cs) : cs \in ChunkSeqs(MainChunks, MaxMainChunks)}

\* the de-duplicated set of matched documents, in the order the loop takes them
Matches == {<<>>, <<"f1">>, <<"f2">>, <<"f1", "f2">>, <<"f2", "f1">>}

\* the documents that cannot be read and the ones that cannot be written
Access == {<<{}, {}>>, <<{"f2"}, {}>>, <<{}, {"f2"}>>}

\* applyEmbeds is not running on its own
ApplyIdle ==
    /\ content = <<>>
    /\ directives = <<>>
    /\ sorted = <<>>
    /\ k = 0
    /\ result = <<>>
    /\ errors = <<>>
    /\ ways = <<>>
    /\ output = <<>>
    /\ pc = "idle"
    /\ hist = <<>>

applyIdleVars == <<content, directives, sorted, k, result, errors, ways, output, pc, hist>>

MainInit ==
    /\ ApplyIdle
    /\ ScanIdle
    /\ TsIdle
    /\ BraceIdle
    /\ CsIdle
    /\ env \in Envs
    /\ run = 1
    /\ argv \in BOOLEAN
    /\ disk \in [Files -> MainDocs]
    /\ diskAtStart = disk
    /\ matched \in (IF argv THEN Matches ELSE {<<>>})
    /\ \E a \in (IF argv THEN Access ELSE {<<{}, {}>>}) :
          /\ unreadable = a[1]
          /\ unwritable = a[2]
    /\ todo = <<>>
    /\ processed = <<>>
    /\ allErrors = <<>>
    /\ totalDirectives = 0
    /\ totalUpdated = 0
    /\ writes = <<>>
    /\ thrown = FALSE
    /\ exitCode = -1
    /\ mpc = "start"

\* no pattern on the command line: usage, exit(1)
MainUsage ==
    /\ mpc = "start"
    /\ ~argv
    /\ exitCode' = 1
    /\ mpc' = "exit"
    /\ UNCHANGED <<argv, matched, unreadable, unwritable, disk, diskAtStart, todo, processed, allErrors,
                   totalDirectives, totalUpdated, writes, thrown>>
    /\ UNCHANGED <<applyVars, pureVars>>

\* no file matches the patterns: exit(0)
MainNoFiles ==
    /\ mpc = "start"
    /\ argv
    /\ Len(matched) = 0
    /\ exitCode' = 0
    /\ mpc' = "exit"
    /\ UNCHANGED <<argv, matched, unreadable, unwritable, disk, diskAtStart, todo, processed, allErrors,
                   totalDirectives, totalUpdated, writes, thrown>>
    /\ UNCHANGED <<applyVars, pureVars>>

MainGlob ==
    /\ mpc = "start"
    /\ argv
    /\ Len(matched) > 0
    /\ todo' = matched
    /\ mpc' = "loop"
    /\ UNCHANGED <<argv, matched, unreadable, unwritable, disk, diskAtStart, processed, allErrors,
                   totalDirectives, totalUpdated, writes, thrown, exitCode>>
    /\ UNCHANGED <<applyVars, pureVars>>

\* a document without directives: continue
MainSkip ==
    /\ mpc = "loop"
    /\ todo # <<>>
    /\ Head(todo) \notin unreadable
    /\ Len(FindDirectives(disk[Head(todo)])) = 0
    /\ todo' = Tail(todo)
    /\ processed' = Append(processed, Head(todo))
    /\ UNCHANGED <<argv, matched, unreadable, unwritable, disk, diskAtStart, allErrors,
                   totalDirectives, totalUpdated, writes, thrown, exitCode, mpc>>
    /\ UNCHANGED <<applyVars, pureVars>>

\* if (output !== content)
ShouldWrite(out, c) == out # c

\* fs.writeFileSync throws: the output differs and the document cannot be
\* written
WriteThrows(mdFile, out, c) == ShouldWrite(out, c) /\ mdFile \in unwritable

\* the body of the loop for a document mdFile read as c, with directives ds
\* and r returned by applyEmbeds: write the output back when it differs
ProcessFile(mdFile, c, ds, r) ==
    /\ Len(ds) > 0
    /\ ~r.threw
    /\ ~WriteThrows(mdFile, r.output, c)
    /\ totalDirectives' = totalDirectives + Len(ds)
    /\ allErrors' = allErrors \o r.errors
    /\ IF ShouldWrite(r.output, c)
       THEN /\ disk' = [disk EXCEPT ![mdFile] = r.output]
            /\ totalUpdated' = totalUpdated + 1
            /\ writes' = Append(writes, [file |-> mdFile, before |-> c, after |-> r.output])
       ELSE UNCHANGED <<disk, totalUpdated, writes>>
    /\ todo' = Tail(todo)
    /\ processed' = Append(processed, mdFile)

\* a document with directives: rewrite it, write it back when it changed
MainProcess ==
    /\ mpc = "loop"
    /\ todo # <<>>
    /\ Head(todo) \notin unreadable
    /\ ProcessFile(Head(todo), disk[Head(todo)], FindDirectives(disk[Head(todo)]),
                   ApplyEmbeds(disk[Head(todo)], env))
    /\ UNCHANGED <<argv, matched, unreadable, unwritable, diskAtStart, thrown, exitCode, mpc>>
    /\ UNCHANGED <<applyVars, pureVars>>

\* the body of the loop up to the exception that leaves it: applyEmbeds
\* throws after the directives were counted, or writeFileSync throws after
\* the errors of the document were collected and before the count of
\* updated documents is raised
ThrowsIn(mdFile, c, ds, r) ==
    /\ Len(ds) > 0
    /\ r.threw \/ WriteThrows(mdFile, r.output, c)
    /\ totalDirectives' = totalDirectives + Len(ds)
    /\ allErrors' = (IF r.threw THEN allErrors ELSE allErrors \o r.errors)
    /\ processed' = Append(processed, mdFile)

\* main().catch: an exception left main, exit(2).  readFileSync throws on
\* the document, or the body of the loop throws; the documents written
\* before stay written and this one is left as it was.
MainFatal ==
    /\ mpc = "loop"
    /\ todo # <<>>
    /\ \/ /\ Head(todo) \in unreadable
          /\ UNCHANGED <<processed, allErrors, totalDirectives>>
       \/ /\ Head(todo) \notin unreadable
          /\ ThrowsIn(Head(todo), disk[Head(todo)], FindDirectives(disk[Head(todo)]),
                      ApplyEmbeds(disk[Head(todo)], env))
    /\ thrown' = TRUE
    /\ exitCode' = 2
    /\ mpc' = "exit"
    /\ UNCHANGED <<argv, matched, unreadable, unwritable, disk, diskAtStart, todo,
                   totalUpdated, writes>>
    /\ UNCHANGED <<applyVars, pureVars>>

ExitStatusZero(errs) == 0

\* if (allErrors.length > 0) process.exit(1); otherwise main returns
ExitStatus(errs) == IF Len(errs) > 0 THEN 1 ELSE 0

MainFinish ==
    /\ mpc = "loop"
    /\ todo = <<>>
    /\ exitCode' = ExitStatus(allErrors)
    /\ mpc' = "exit"
    /\ UNCHANGED <<argv, matched, unreadable, unwritable, disk, diskAtStart, todo, processed, allErrors,
                   totalDirectives, totalUpdated, writes, thrown>>
    /\ UNCHANGED <<applyVars, pureVars>>

\* the tool is run again with the same patterns, the sources unchanged
MainRerun ==
    /\ mpc = "exit"
    /\ run < MaxRuns
    /\ run' = run + 1
    /\ diskAtStart' = disk
    /\ todo' = <<>>
    /\ processed' = <<>>
    /\ allErrors' = <<>>
    /\ totalDirectives' = 0
    /\ totalUpdated' = 0
    /\ writes' = <<>>
    /\ thrown' = FALSE
    /\ exitCode' = -1
    /\ mpc' = "start"
    /\ UNCHANGED <<argv, matched, unreadable, unwritable, disk, env>>
    /\ UNCHANGED <<applyIdleVars, pureVars>>

MainNext ==
    \/ MainUsage
    \/ MainNoFiles
    \/ MainGlob
    \/ MainFatal
    \/ MainSkip
    \/ MainProcess
    \/ MainFinish
    \/ MainRerun

SpecMain == MainInit /\ [][MainNext]_vars

---------------------------------------------------------------------------
(* Claims about main.                                                      *)

FailsIn(c) == \E i \in 1..Len(FindDirectives(c)) : Fails(FindDirectives(c)[i])

\* a directive of a matched document, as the run found it, does not resolve
SomeDirectiveFailed ==
    \E i \in 1..Len(matched) : FailsIn(diskAtStart[matched[i]])

\* C4: exit status.  2 when an exception escaped the run; otherwise 1 when
\* no pattern was given or a directive of a matched document failed to
\* resolve, and 0 when none failed (no matched document included); a
\* failing directive does not keep the later documents from being processed.
C4_ExitStatus ==
    mpc = "exit" =>
        /\ thrown => exitCode = 2
        /\ (~thrown /\ (~argv \/ SomeDirectiveFailed)) => exitCode = 1
        /\ (~thrown /\ argv /\ ~SomeDirectiveFailed) => exitCode = 0
        /\ (~thrown /\ argv) => processed = matched

\* a run ends with status 1 after a directive of its first document failed
\* and its second document was still rewritten
C4_Witness ==
    /\ mpc = "exit"
    /\ exitCode = 1
    /\ Len(matched) = 2
    /\ FailsIn(diskAtStart[matched[1]])
    /\ \E i \in 1..Len(writes) : writes[i].file = matched[2]

\* every directive of c resolves and is followed by the block generated
\* from the current extracted text
ShowsCurrent(c) ==
    LET ds == FindDirectives(c)
    IN  \A i \in 1..Len(ds) :
            LET rs == ResolveEmbed(ds[i], env)
                me == ds[i].startIndex + MarkerMatchAt(c, ds[i].startIndex).length
            IN  /\ rs.error = <<>>
                /\ StartsWithAt(c, me, <<"\n">> \o CodeBlock(ds[i].kind, rs.code))

\* C5: no-op stability and write-skipping.  applyEmbeds returns a document
\* without directives unchanged; the run writes a document only when the
\* rewritten text differs from the text read, never a document without
\* directives and never one whose every directive already shows the
\* current extracted text.
C5_NoOpStability ==
    /\ \A f \in Files :
          (mpc # "idle" /\ Len(FindDirectives(disk[f])) = 0) =>
              ApplyEmbeds(disk[f], env).output = disk[f]
    /\ \A i \in 1..Len(writes) :
          /\ writes[i].before # writes[i].after
          /\ Len(FindDirectives(writes[i].before)) > 0
          /\ ~ShowsCurrent(writes[i].before)

---------------------------------------------------------------------------
(* findDirectives on its own: one exec of the marker regex per step of the *)
(* first pass, one marker per step of the second pass.                     *)

MaxScanChunks == 4

ScanChunks == {"T", "MA", "MAf", "MB", "NoHash", "NoKind", "CT", "CC"}

ScanInit ==
    /\ chunks \in ChunkSeqs(ScanChunks, MaxScanChunks)
    /\ doc = Flatten(chunks)
    /\ lastIndex = 0
    /\ openMarkers = <<>>
    /\ found = <<>>
    /\ si = 0
    /\ spc = "open"
    /\ ApplyIdle
    /\ env = <<>>
    /\ run = 0
    /\ MainIdle
    /\ TsIdle
    /\ BraceIdle
    /\ CsIdle

scanFrame == <<applyVars, mainVars, tsVars, braceVars, csVars>>

\* while ((match = markerRe.exec(content)) !== null) openMarkers.push(...)
ScanOpen ==
    /\ spc = "open"
    /\ NextMarker(doc, lastIndex).ok
    /\ LET m == NextMarker(doc, lastIndex)
       IN  /\ openMarkers' = Append(openMarkers, m)
           /\ lastIndex' = m.index + m.length
    /\ UNCHANGED <<chunks, doc, found, si, spc>>
    /\ UNCHANGED scanFrame

\* exec returns null and sets lastIndex of the global regex to 0: the first
\* pass is over
ScanOpenDone ==
    /\ spc = "open"
    /\ ~NextMarker(doc, lastIndex).ok
    /\ lastIndex' = 0
    /\ si' = 1
    /\ spc' = "close"
    /\ UNCHANGED <<chunks, doc, openMarkers, found>>
    /\ UNCHANGED scanFrame

ScanClose ==
    /\ spc = "close"
    /\ si <= Len(openMarkers)
    /\ found' = Append(found, DirectiveOf(doc, openMarkers, si))
    /\ si' = si + 1
    /\ UNCHANGED <<chunks, doc, lastIndex, openMarkers, spc>>
    /\ UNCHANGED scanFrame

ScanReturn ==
    /\ spc = "close"
    /\ si > Len(openMarkers)
    /\ spc' = "done"
    /\ UNCHANGED <<chunks, doc, lastIndex, openMarkers, found, si>>
    /\ UNCHANGED scanFrame

ScanNext ==
    \/ ScanOpen
    \/ ScanOpenDone
    \/ ScanClose
    \/ ScanReturn

SpecScan == ScanInit /\ [][ScanNext]_vars

---------------------------------------------------------------------------
(* Claims about findDirectives.                                            *)

Malformed(c) == c \in {"NoHash", "NoKind"}

WellFormed(c) == ~Malformed(c)

\* the offset, in the document of cs, of the piece that starts at offset o of
\* the document of cs without its malformed comments
RECURSIVE MapStart(_, _)
MapStart(cs, o) ==
    IF cs = <<>> THEN 0
    ELSE IF Malformed(cs[1]) THEN Len(ChunkText(cs[1])) + MapStart(Tail(cs), o)
    ELSE IF o < Len(ChunkText(cs[1])) THEN o
    ELSE Len(ChunkText(cs[1])) + MapStart(Tail(cs), o - Len(ChunkText(cs[1])))

\* the same for the offset o at which a piece ends
RECURSIVE MapEnd(_, _)
MapEnd(cs, o) ==
    IF cs = <<>> \/ o = 0 THEN 0
    ELSE IF Malformed(cs[1]) THEN Len(ChunkText(cs[1])) + MapEnd(Tail(cs), o)
    ELSE IF o <= Len(ChunkText(cs[1])) THEN o
    ELSE Len(ChunkText(cs[1])) + MapEnd(Tail(cs), o - Len(ChunkText(cs[1])))

\* the directives of the well-formed markers of cs: those of the document
\* without the malformed comments, at the offsets the markers have in cs
WellFormedDirectives(cs) ==
    LET ds == FindDirectives(Flatten(SelectSeq(cs, WellFormed)))
    IN  [j \in 1..Len(ds) |->
            [kind |-> ds[j].kind,
             sourcePath |-> ds[j].sourcePath,
             symbolName |-> ds[j].symbolName,
             startIndex |-> MapStart(cs, ds[j].startIndex),
             endIndex |-> IF ds[j].endIndex = NoClose THEN NoClose
                          ELSE MapEnd(cs, ds[j].endIndex)]]

FoundFields ==
    [j \in 1..Len(found) |->
        [kind |-> found[j].kind,
         sourcePath |-> found[j].sourcePath,
         symbolName |-> found[j].symbolName,
         startIndex |-> found[j].startIndex,
         endIndex |-> found[j].endIndex]]

\* C6: a malformed open marker (no "#", or no kind) is invisible to the
\* scanner: it yields no directive, and the directives found are those of
\* the well-formed markers, with the kind, path, symbol, start and end they
\* have without the malformed comments.
C6_MalformedInvisible ==
    spc = "done" => FoundFields = WellFormedDirectives(chunks)

\* C10: window bound.  The endIndex of a directive is the no-close sentinel
\* or lies after its startIndex and at or before the start of the next
\* directive (the end of the document for the last one).
C10_WindowBound ==
    \A j \in 1..Len(found) :
        \/ found[j].endIndex = NoClose
        \/ /\ found[j].startIndex < found[j].endIndex
           /\ found[j].endIndex <= (IF j < Len(openMarkers) THEN openMarkers[j + 1].index
                                    ELSE Len(doc))

\* a directive is left without a close although a close tag of its kind
\* follows the next open marker
C10_Witness ==
    /\ spc = "done"
    /\ Len(found) >= 2
    /\ found[1].endIndex = NoClose
    /\ IndexOf(doc, CloseTag(found[1].kind), found[2].startIndex) # -1
    /\ found[2].endIndex # NoClose

---------------------------------------------------------------------------
(* Structured extraction: extractTsSymbol.  The parser is the TypeScript   *)
(* compiler; a parsed unit is its text and its top-level statements, each  *)
(* with the kind of the node, its name node (an identifier, a string       *)
(* literal, a binding pattern or none), the kind of its body, the          *)
(* statements of a module block, and its offsets getFullStart, getStart    *)
(* and getEnd.                                                             *)

NullName == <<"NULL">>

NamedKinds == {"function", "class", "interface", "typeAlias", "enum", "module"}

getNodeDeclaredName(node) ==
    IF node.kind \in NamedKinds
    THEN IF node.name.kind = "none" THEN NullName ELSE node.name.text
    ELSE IF node.kind = "variable" /\ node.name.kind = "identifier" THEN node.name.text
    ELSE NullName

\* String.prototype.split("\n")
RECURSIVE SplitLines(_)
SplitLines(s) ==
    LET n == IndexOf(s, <<"\n">>, 0)
    IN  IF n = -1 THEN <<s>>
        ELSE <<Substring(s, 0, n)>> \o SplitLines(SubstringFrom(s, n + 1))

IsCommentLine(l) ==
    \/ StartsWithAt(Trim(l), 0, <<"*">>)
    \/ StartsWithAt(Trim(l), 0, <<"/">>)
    \/ StartsWithAt(Trim(l), 0, <<"/", "*", "*">>)

extractNodeText(source, node) ==
    LET leading == Substring(source, node.fullStart, node.start)
        commentLines == SelectSeq(SplitLines(leading), IsCommentLine)
        commentBlock == IF Len(commentLines) > 0 THEN TrimStart(leading) ELSE <<>>
        body == Substring(source, node.start, node.end)
    IN  (IF commentBlock # <<>> THEN commentBlock \o <<"\n">> ELSE <<>>) \o TrimEnd(body)

NotFound == [found |-> FALSE, node |-> <<>>, text |-> <<>>]

RECURSIVE FirstNamed(_, _, _)
FirstNamed(source, stmts, name) ==
    IF stmts = <<>> THEN NotFound
    ELSE IF getNodeDeclaredName(stmts[1]) = name
    THEN [found |-> TRUE, node |-> stmts[1], text |-> extractNodeText(source, stmts[1])]
    ELSE FirstNamed(source, Tail(stmts), name)

\* the for loop over sf.statements, from the first of stmts on
RECURSIVE ExtractFrom(_, _, _)
ExtractFrom(source, stmts, symbolName) ==
    IF stmts = <<>> THEN NotFound
    ELSE
    LET stmt == stmts[1]
        prefix == stmt.name.text \o <<".">>
        inner == FirstNamed(source, stmt.inner, SubstringFrom(symbolName, Len(prefix)))
    IN  IF getNodeDeclaredName(stmt) = symbolName
        THEN [found |-> TRUE, node |-> stmt, text |-> extractNodeText(source, stmt)]
        ELSE IF /\ stmt.kind = "module"
                /\ stmt.name.kind = "identifier"
                /\ stmt.body = "moduleBlock"
                /\ StartsWithAt(symbolName, 0, prefix)
                /\ inner.found
        THEN inner
        ELSE ExtractFrom(source, Tail(stmts), symbolName)

extractTsSymbol(unit, symbolName) == ExtractFrom(unit.text, unit.statements, symbolName)

\* Declarations the units are written from.

MaxStmts == 2

GapDoc ==
    <<"/","*","*"," ","d"," ","*","/","\n">>

GapBlankLines ==
    <<"\n","\n","/","/"," ","c","\n","\n","/","*","*"," ","d"," ","*","/","\n">>

GapBlockComment ==
    <<"/","*","\n"," ","x","\n"," ","*","/","\n">>

TextFunctionBar ==
    <<"f","u","n","c","t","i","o","n"," ","b","a","r","(",")"," ","{","}">>

TextNamespaceA ==
    <<"n","a","m","e","s","p","a","c","e"," ","A"," ","{"," ","f","u","n","c","t","i","o","n"," ","B","(",")"," ","{","}"," ","}">>

TextNamespaceADotB ==
    <<"n","a","m","e","s","p","a","c","e"," ","A",".","B"," ","{"," ","f","u","n","c","t","i","o","n"," ","C","(",")"," ","{","}"," ","}">>

TextModuleString ==
    <<"d","e","c","l","a","r","e"," ","m","o","d","u","l","e"," ","\"","A",".","B",".","C","\""," ","{","}">>

TextNamespaceAModuleString ==
    <<"n","a","m","e","s","p","a","c","e"," ","A"," ","{"," ","d","e","c","l","a","r","e"," ","m","o","d","u","l","e"," ","\"","B",".","C","\""," ","{","}"," ","}">>

TextNamespaceANamespaceB ==
    <<"n","a","m","e","s","p","a","c","e"," ","A"," ","{"," ","n","a","m","e","s","p","a","c","e"," ","B"," ","{"," ","f","u","n","c","t","i","o","n"," ","C","(",")"," ","{","}"," ","}"," ","}">>

TextVariables ==
    <<"c","o","n","s","t"," ","x"," ","="," ","1",","," ","y"," ","="," ","2",";">>

TextExpression ==
    <<"b","a","r","(",")",";">>

TextAnonymous ==
    <<"e","x","p","o","r","t"," ","d","e","f","a","u","l","t"," ","f","u","n","c","t","i","o","n"," ","(",")"," ","{","}">>

Identifier(t) == [kind |-> "identifier", text |-> t]

StringLiteral(t) == [kind |-> "string", text |-> t]

NoName == [kind |-> "none", text |-> <<>>]

\* a statement as written: the trivia before it, its text, and the
\* statements of its module block with their offsets from its first character
Written(leading, text, kind, name, body, inner) ==
    [leading |-> leading, text |-> text, kind |-> kind, name |-> name,
     body |-> body, inner |-> inner]

InnerAt(rel, leadingLen, textLen, kind, name) ==
    [rel |-> rel, leadingLen |-> leadingLen, textLen |-> textLen, kind |-> kind, name |-> name]

FunctionBar(gap) == Written(gap, TextFunctionBar, "function", Identifier(<<"b","a","r">>), "block", <<>>)

Declarations ==
    {FunctionBar(<<>>), FunctionBar(<<"\n">>), FunctionBar(GapDoc),
     FunctionBar(GapBlankLines), FunctionBar(GapBlockComment),
     Written(<<"\n">>, TextNamespaceA, "module", Identifier(<<"A">>), "moduleBlock",
             <<InnerAt(13, 1, 15, "function", Identifier(<<"B">>))>>),
     Written(<<"\n">>, TextNamespaceADotB, "module", Identifier(<<"A">>), "module", <<>>),
     Written(<<"\n">>, TextModuleString, "module", StringLiteral(<<"A",".","B",".","C">>),
             "moduleBlock", <<>>),
     Written(<<"\n">>, TextNamespaceAModuleString, "module", Identifier(<<"A">>), "moduleBlock",
             <<InnerAt(13, 1, 23, "module", StringLiteral(<<"B",".","C">>))>>),
     Written(<<"\n">>, TextNamespaceANamespaceB, "module", Identifier(<<"A">>), "moduleBlock",
             <<InnerAt(13, 1, 31, "module", Identifier(<<"B">>))>>),
     Written(<<"\n">>, TextVariables, "variable", Identifier(<<"x">>), "none", <<>>),
     Written(<<"\n">>, TextExpression, "expression", NoName, "none", <<>>),
     Written(<<"\n">>, TextAnonymous, "function", NoName, "block", <<>>)}

Symbols ==
    {<<"b","a","r">>, <<"A">>, <<"B">>, <<"x">>, <<"y">>, <<"A",".","B">>,
     <<"B",".","C">>, <<"A",".","B",".","C">>, <<"A",".","B",".","C",".","D">>}

\* the node of a written statement whose trivia starts at offset at
NodeAt(w, at) ==
    [kind |-> w.kind, name |-> w.name, body |-> w.body,
     fullStart |-> at,
     start |-> at + Len(w.leading),
     end |-> at + Len(w.leading) + Len(w.text),
     inner |-> [j \in 1..Len(w.inner) |->
                   [kind |-> w.inner[j].kind, name |-> w.inner[j].name,
                    body |-> "moduleBlock", inner |-> <<>>,
                    fullStart |-> at + Len(w.leading) + w.inner[j].rel,
                    start |-> at + Len(w.leading) + w.inner[j].rel + w.inner[j].leadingLen,
                    end |-> at + Len(w.leading) + w.inner[j].rel + w.inner[j].leadingLen
                            + w.inner[j].textLen]]]

RECURSIVE ParseFrom(_, _)
ParseFrom(ws, at) ==
    IF ws = <<>> THEN [text |-> <<>>, statements |-> <<>>]
    ELSE LET rest == ParseFrom(Tail(ws), at + Len(ws[1].leading) + Len(ws[1].text))
         IN  [text |-> ws[1].leading \o ws[1].text \o rest.text,
              statements |-> <<NodeAt(ws[1], at)>> \o rest.statements]

\* ts.createSourceFile on the text of the written statements
Parse(ws) == ParseFrom(ws, 0)

TsInit ==
    /\ \E ws \in UNION {[1..m -> Declarations] : m \in 1..MaxStmts} :
          /\ tsUnit = Parse(ws).statements
          /\ tsSource = Parse(ws).text
    /\ tsSymbol \in Symbols
    /\ tsNode = <<>>
    /\ tsResult = <<>>
    /\ tpc = "start"
    /\ ApplyIdle
    /\ env = <<>>
    /\ run = 0
    /\ MainIdle
    /\ ScanIdle
    /\ BraceIdle
    /\ CsIdle

tsFrame == <<applyVars, mainVars, scanVars, braceVars, csVars>>

TsFound ==
    /\ tpc = "start"
    /\ LET r == extractTsSymbol([text |-> tsSource, statements |-> tsUnit], tsSymbol)
       IN  /\ r.found
           /\ tsNode' = r.node
           /\ tsResult' = r.text
    /\ tpc' = "found"
    /\ UNCHANGED <<tsSource, tsUnit, tsSymbol>>
    /\ UNCHANGED tsFrame

\* return null
TsNotFound ==
    /\ tpc = "start"
    /\ ~extractTsSymbol([text |-> tsSource, statements |-> tsUnit], tsSymbol).found
    /\ tpc' = "null"
    /\ UNCHANGED <<tsSource, tsUnit, tsSymbol, tsNode, tsResult>>
    /\ UNCHANGED tsFrame

TsNext ==
    \/ TsFound
    \/ TsNotFound

SpecTs == TsInit /\ [][TsNext]_vars

---------------------------------------------------------------------------
(* Claims about the structured extractor.                                  *)

\* the text the extraction is to give for a node: the comment lines of the
\* gap before it, then one newline, then its text trimmed at the end; the
\* text alone when the gap holds no comment line
CommentLinesThenText(source, node) ==
    LET commentLines == SelectSeq(SplitLines(Substring(source, node.fullStart, node.start)),
                                  IsCommentLine)
        text == TrimEnd(Substring(source, node.start, node.end))
    IN  IF Len(commentLines) = 0 THEN text
        ELSE JoinLines(commentLines) \o <<"\n">> \o text

\* C7: the extracted text is the comment lines of the leading gap verbatim,
\* blank and non-comment lines dropped, one newline, and the declaration.
C7_LeadingComment ==
    tpc = "found" => tsResult = CommentLinesThenText(tsSource, tsNode)

Dots(name) == Cardinality({j \in 1..Len(name) : name[j] = "."})

\* C8: a symbol name with more than one "." is resolved as not-found.
C8_NestingLimit ==
    (tpc # "start" /\ Dots(tsSymbol) > 1) => tpc = "null"

---------------------------------------------------------------------------
(* The balanced-delimiter scan: findMatchingBrace, one iteration of its    *)
(* loop per step.                                                          *)

Scanning(source, at) ==
    [i |-> at, depth |-> 0, inString |-> FALSE, stringChar |-> "",
     inLineComment |-> FALSE, inBlockComment |-> FALSE, inVerbatim |-> FALSE,
     done |-> FALSE, res |-> -1]

\* if (inLineComment) { if (ch === "\n") inLineComment = false; continue; }
LineCommentStep(source, st) ==
    IF At(source, st.i) = "\n"
    THEN [st EXCEPT !.inLineComment = FALSE, !.i = st.i + 1]
    ELSE [st EXCEPT !.i = st.i + 1]

BlockCommentStep(source, st) ==
    IF At(source, st.i) = "*" /\ At(source, st.i + 1) = "/"
    THEN [st EXCEPT !.inBlockComment = FALSE, !.i = st.i + 2]
    ELSE [st EXCEPT !.i = st.i + 1]

VerbatimStep(source, st) ==
    IF At(source, st.i) = "\"" /\ At(source, st.i + 1) = "\""
    THEN [st EXCEPT !.i = st.i + 2]
    ELSE IF At(source, st.i) = "\""
    THEN [st EXCEPT !.inVerbatim = FALSE, !.i = st.i + 1]
    ELSE [st EXCEPT !.i = st.i + 1]

\* the escaped character is not skipped
StringStepNoEscape(source, st) ==
    IF At(source, st.i) = st.stringChar
    THEN [st EXCEPT !.inString = FALSE, !.i = st.i + 1]
    ELSE [st EXCEPT !.i = st.i + 1]

StringStep(source, st) ==
    IF At(source, st.i) = "\\" /\ st.stringChar # "bq"
    THEN [st EXCEPT !.i = st.i + 2]
    ELSE IF At(source, st.i) = st.stringChar
    THEN [st EXCEPT !.inString = FALSE, !.i = st.i + 1]
    ELSE [st EXCEPT !.i = st.i + 1]

\* not in any string or comment
CodeStep(source, st) ==
    LET ch == At(source, st.i)
        next == At(source, st.i + 1)
    IN  IF ch = "/" /\ next = "/" THEN [st EXCEPT !.inLineComment = TRUE, !.i = st.i + 2]
        ELSE IF ch = "/" /\ next = "*" THEN [st EXCEPT !.inBlockComment = TRUE, !.i = st.i + 2]
        ELSE IF ch = "@" /\ next = "\"" THEN [st EXCEPT !.inVerbatim = TRUE, !.i = st.i + 2]
        ELSE IF ch = "\"" \/ ch = "'"
        THEN [st EXCEPT !.inString = TRUE, !.stringChar = ch, !.i = st.i + 1]
        ELSE IF ch = "{" THEN [st EXCEPT !.depth = st.depth + 1, !.i = st.i + 1]
        ELSE IF ch = "}"
        THEN IF st.depth - 1 = 0
             THEN [st EXCEPT !.depth = 0, !.done = TRUE, !.res = st.i]
             ELSE [st EXCEPT !.depth = st.depth - 1, !.i = st.i + 1]
        ELSE [st EXCEPT !.i = st.i + 1]

\* one iteration of the for loop; past the end of the text: return -1
BraceStep(source, st) ==
    IF st.i >= Len(source) THEN [st EXCEPT !.done = TRUE, !.res = -1]
    ELSE IF st.inLineComment THEN LineCommentStep(source, st)
    ELSE IF st.inBlockComment THEN BlockCommentStep(source, st)
    ELSE IF st.inVerbatim THEN VerbatimStep(source, st)
    ELSE IF st.inString THEN StringStep(source, st)
    ELSE CodeStep(source, st)

RECURSIVE BraceRun(_, _)
BraceRun(source, st) == IF st.done THEN st.res ELSE BraceRun(source, BraceStep(source, st))

findMatchingBrace(source, at) == BraceRun(source, Scanning(source, at))

MaxBraceLen == 4

BraceChars == {"{", "}", "\"", "'", "/", "*", "@", "\\", "\n"}

SampleString ==
    <<" ","s"," ","="," ","\"","}","\"",";"," ","}">>

SampleVerbatim ==
    <<" ","@","\"","a","\"","\"","}","\""," ","}">>

SampleComments ==
    <<" ","/","*"," ","}"," ","*","/"," ","/","/"," ","}","\n"," ","}">>

SampleEscape ==
    <<" ","\"","\\","\"","}","\""," ","}">>

\* what follows the opening brace
BraceBodies ==
    UNION {[1..m -> BraceChars] : m \in 0..MaxBraceLen}
        \cup {SampleString, SampleVerbatim, SampleComments, SampleEscape}

\* what precedes it
BracePrefixes == {<<>>, <<"/", "/">>}

BraceState ==
    [i |-> bi, depth |-> depth, inString |-> inString, stringChar |-> stringChar,
     inLineComment |-> inLineComment, inBlockComment |-> inBlockComment,
     inVerbatim |-> inVerbatim, done |-> bpc = "done", res |-> bres]

BraceInit ==
    /\ \E pre \in BracePrefixes, body \in BraceBodies :
          /\ bsrc = pre \o <<"{">> \o body
          /\ openPos = Len(pre)
          /\ bi = Len(pre)
    /\ depth = 0
    /\ inString = FALSE
    /\ stringChar = ""
    /\ inLineComment = FALSE
    /\ inBlockComment = FALSE
    /\ inVerbatim = FALSE
    /\ bres = -1
    /\ bpc = "scan"
    /\ ApplyIdle
    /\ env = <<>>
    /\ run = 0
    /\ MainIdle
    /\ ScanIdle
    /\ TsIdle
    /\ CsIdle

braceFrame == <<applyVars, mainVars, scanVars, tsVars, csVars>>

BraceSet(st) ==
    /\ bi' = st.i
    /\ depth' = st.depth
    /\ inString' = st.inString
    /\ stringChar' = st.stringChar
    /\ inLineComment' = st.inLineComment
    /\ inBlockComment' = st.inBlockComment
    /\ inVerbatim' = st.inVerbatim
    /\ bres' = st.res
    /\ bpc' = IF st.done THEN "done" ELSE "scan"
    /\ UNCHANGED <<bsrc, openPos>>
    /\ UNCHANGED braceFrame

\* an iteration inside a comment or a string
BraceInside ==
    /\ bpc = "scan"
    /\ bi < Len(bsrc)
    /\ inLineComment \/ inBlockComment \/ inVerbatim \/ inString
    /\ BraceSet(BraceStep(bsrc, BraceState))

\* an iteration outside them, which does not return
BraceOutside ==
    /\ bpc = "scan"
    /\ bi < Len(bsrc)
    /\ ~(inLineComment \/ inBlockComment \/ inVerbatim \/ inString)
    /\ ~BraceStep(bsrc, BraceState).done
    /\ BraceSet(BraceStep(bsrc, BraceState))

\* the closing brace at which the depth is back to zero: return i
BraceMatched ==
    /\ bpc = "scan"
    /\ bi < Len(bsrc)
    /\ ~(inLineComment \/ inBlockComment \/ inVerbatim \/ inString)
    /\ BraceStep(bsrc, BraceState).done
    /\ BraceSet(BraceStep(bsrc, BraceState))

\* the end of the text: return -1
BraceNotFound ==
    /\ bpc = "scan"
    /\ bi >= Len(bsrc)
    /\ BraceSet(BraceStep(bsrc, BraceState))

BraceNext ==
    \/ BraceInside
    \/ BraceOutside
    \/ BraceMatched
    \/ BraceNotFound

SpecBrace == BraceInit /\ [][BraceNext]_vars

---------------------------------------------------------------------------
(* Claims about the balanced-delimiter scan.                               *)

\* the offset of the quote that closes the quoted string entered before i
RECURSIVE QuotedEnd(_, _, _)
QuotedEnd(s, i, q) ==
    IF i >= Len(s) THEN -1
    ELSE IF s[i + 1] = "\\" THEN QuotedEnd(s, i + 2, q)
    ELSE IF s[i + 1] = q THEN i
    ELSE QuotedEnd(s, i + 1, q)

\* the offset of the lone quote that closes the verbatim string entered before i
RECURSIVE VerbatimEnd(_, _)
VerbatimEnd(s, i) ==
    IF i >= Len(s) THEN -1
    ELSE IF s[i + 1] = "\"" /\ At(s, i + 1) = "\"" THEN VerbatimEnd(s, i + 2)
    ELSE IF s[i + 1] = "\"" THEN i
    ELSE VerbatimEnd(s, i + 1)

\* the offsets from i on that lie outside line comments, block comments,
\* quoted strings and verbatim strings, the scan being outside them at i
RECURSIVE OutsideFrom(_, _)
OutsideFrom(s, i) ==
    IF i >= Len(s) THEN {}
    ELSE IF StartsWithAt(s, i, <<"/", "/">>)
    THEN LET n == IndexOf(s, <<"\n">>, i + 2)
         IN  IF n = -1 THEN {} ELSE OutsideFrom(s, n + 1)
    ELSE IF StartsWithAt(s, i, <<"/", "*">>)
    THEN LET n == IndexOf(s, <<"*", "/">>, i + 2)
         IN  IF n = -1 THEN {} ELSE OutsideFrom(s, n + 2)
    ELSE IF StartsWithAt(s, i, <<"@", "\"">>)
    THEN LET n == VerbatimEnd(s, i + 2)
         IN  IF n = -1 THEN {} ELSE OutsideFrom(s, n + 1)
    ELSE IF s[i + 1] \in {"\"", "'"}
    THEN LET n == QuotedEnd(s, i + 1, s[i + 1])
         IN  IF n = -1 THEN {} ELSE OutsideFrom(s, n + 1)
    ELSE {i} \cup OutsideFrom(s, i + 1)

\* the depth after offset j of the braces that lie outside
DepthAt(s, out, j) ==
    Cardinality({p \in out : p <= j /\ s[p + 1] = "{"})
        - Cardinality({p \in out : p <= j /\ s[p + 1] = "}"})

\* the closing brace at which the depth of the braces outside comments and
\* strings first returns to zero, or -1
BalancedClose(s, at) ==
    LET out == OutsideFrom(s, at)
        zeros == {j \in out : s[j + 1] = "}" /\ DepthAt(s, out, j) = 0}
    IN  IF zeros = {} THEN -1 ELSE MinOf(zeros)

ModesActive ==
    Cardinality({m \in {"line", "block", "verbatim", "string"} :
        \/ m = "line" /\ inLineComment
        \/ m = "block" /\ inBlockComment
        \/ m = "verbatim" /\ inVerbatim
        \/ m = "string" /\ inString})

\* C9: the scan returns the closing brace at which the depth of the braces
\* outside line comments, block comments, quoted strings and verbatim
\* strings first returns to zero, -1 when the text ends first; at most one
\* of the modes is active at any character.
C9_BalancedScan ==
    /\ ModesActive <= 1
    /\ bpc = "done" => bres = BalancedClose(bsrc, openPos)

\* the scan returned a closing brace that lies after a closing brace inside
\* a string or a comment
C9_Witness ==
    /\ bpc = "done"
    /\ bres # -1
    /\ \E p \in (openPos + 1)..(bres - 1) :
          bsrc[p + 1] = "}" /\ p \notin OutsideFrom(bsrc, openPos)

---------------------------------------------------------------------------
(* Regular expressions as RegExp.prototype.exec runs them: a backtracking  *)
(* match whose alternatives are tried in the order of the pattern.  The    *)
(* offsets at which a pattern can end are listed in that order, so the     *)
(* first of the list is the end exec reports.                              *)

\* \w
WordChars ==
    {"a", "b", "c", "d", "e", "f", "g", "h", "i", "j", "k", "l", "m",
     "n", "o", "p", "q", "r", "s", "t", "u", "v", "w", "x", "y", "z",
     "A", "B", "C", "D", "E", "F", "G", "H", "I", "J", "K", "L", "M",
     "N", "O", "P", "Q", "R", "S", "T", "U", "V", "W", "X", "Y", "Z",
     "0", "1", "2", "3", "4", "5", "6", "7", "8", "9", "_"}

ReIn(cs) == [t |-> "in", cs |-> cs]

ReNotIn(cs) == [t |-> "notin", cs |-> cs]

ReLit(w) == [t |-> "lit", w |-> w]

ReCat(rs) == [t |-> "cat", rs |-> rs]

ReAlt(rs) == [t |-> "alt", rs |-> rs]

IsClass(r) == r.t \in {"in", "notin"}

\* a run of characters of the class r: as many as possible, never fewer
\* than least
ReRun(r, least) == [t |-> "run", r |-> r, least |-> least]

\* r*
ReStar(r) == IF IsClass(r) THEN ReRun(r, 0) ELSE [t |-> "star", r |-> r]

\* r+
RePlus(r) == IF IsClass(r) THEN ReRun(r, 1) ELSE ReCat(<<r, ReStar(r)>>)

\* r?
ReOpt(r) == ReAlt(<<r, ReCat(<<>>)>>)

\* b comes before c in the order of the search: an earlier branch, or an
\* earlier end of the same branch
Before(b, c) == b[1] < c[1] \/ (b[1] = c[1] /\ b[2] < c[2])

\* branches is a set of pairs <<j, ends>>: the ends of the j-th branch of the
\* search.  The ends of all the branches in the order of the search, each
\* offset at its first place only
InOrder(branches) ==
    IF \A b \in branches : b[2] = <<>> THEN <<>>
    ELSE LET items == UNION {{<<b[1], m, b[2][m]>> : m \in 1..Len(b[2])} : b \in branches}
             keep == {c \in items : \A b \in items : b[3] = c[3] => ~Before(b, c)}
         IN  [x \in 1..Cardinality(keep) |->
                 (CHOOSE c \in keep : Cardinality({b \in keep : Before(b, c)}) = x - 1)[3]]

RECURSIVE ReEnds(_, _, _)
RECURSIVE CatEnds(_, _, _, _)
RECURSIVE StarEnds(_, _, _)

\* the ends of r from each of the offsets starts, in order
EndsFromAll(r, s, starts) ==
    IF Len(starts) = 1 THEN ReEnds(r, s, starts[1])
    ELSE InOrder({<<j, ReEnds(r, s, starts[j])>> : j \in 1..Len(starts)})

\* the patterns rs[j], rs[j+1], ... one after the other
CatEnds(rs, j, s, starts) ==
    IF starts = <<>> \/ j > Len(rs) THEN starts
    ELSE CatEnds(rs, j + 1, s, EndsFromAll(rs[j], s, starts))

\* the alternatives rs[1], rs[2], ... in their order
AltEnds(rs, s, i) == InOrder({<<j, ReEnds(rs[j], s, i)>> : j \in 1..Len(rs)})

\* r* from offset i, ends being the ends of one iteration: after an
\* iteration that moved, r* again; the offset itself last
StarAfter(r, s, i, ends) ==
    IF ends = <<>> THEN <<i>>
    ELSE IF Len(ends) = 1 /\ ends[1] # i THEN Append(StarEnds(r, s, ends[1]), i)
    ELSE InOrder({<<m, IF ends[m] = i THEN <<>> ELSE StarEnds(r, s, ends[m])>> :
                      m \in 1..Len(ends)}
                 \cup {<<Len(ends) + 1, <<i>>>>})

StarEnds(r, s, i) == StarAfter(r, s, i, ReEnds(r, s, i))

\* one character of the class r
InClass(r, c) == IF r.t = "in" THEN c \in r.cs ELSE c \notin r.cs

\* a run of the class r: the whole run of characters of the class first,
\* then one character less each time, down to least characters
ClassRunEnds(r, s, i, least) ==
    LET stop == MinOf({j \in i..Len(s) : j = Len(s) \/ ~InClass(r, s[j + 1])})
    IN  [j \in 1..(stop - i - least + 1) |-> stop - j + 1]

\* the offsets at which a match of r that starts at offset i of s can end
ReEnds(r, s, i) ==
    CASE r.t = "in" -> IF i < Len(s) /\ s[i + 1] \in r.cs THEN <<i + 1>> ELSE <<>>
      [] r.t = "notin" -> IF i < Len(s) /\ s[i + 1] \notin r.cs THEN <<i + 1>> ELSE <<>>
      [] r.t = "lit" -> IF StartsWithAt(s, i, r.w) THEN <<i + Len(r.w)>> ELSE <<>>
      [] r.t = "cat" -> CatEnds(r.rs, 1, s, <<i>>)
      [] r.t = "alt" -> AltEnds(r.rs, s, i)
      [] r.t = "run" -> ClassRunEnds(r.r, s, i, r.least)
      [] r.t = "star" -> StarEnds(r.r, s, i)

NoExec == [ok |-> FALSE, index |-> -1, group1End |-> -1, end |-> -1]

\* the ends of the first group after which the second group matches, as
\* places in ends1
SplitAt(g2, s, ends1) == {j \in 1..Len(ends1) : ReEnds(g2, s, ends1[j]) # <<>>}

\* the match that starts at offset p: the first end of the first group
\* after which the second group matches, and the first end of the second
MatchAt(g1, g2, s, p) ==
    LET ends1 == ReEnds(g1, s, p)
        group1End == ends1[MinOf(SplitAt(g2, s, ends1))]
    IN  [ok |-> TRUE, index |-> p, group1End |-> group1End,
         end |-> ReEnds(g2, s, group1End)[1]]

\* exec of the pattern (g1)(g2) on s: the leftmost offset at which it matches
Exec(g1, g2, s) ==
    LET hits == {p \in 0..Len(s) : SplitAt(g2, s, ReEnds(g1, s, p)) # {}}
    IN  IF hits = {} THEN NoExec ELSE MatchAt(g1, g2, s, MinOf(hits))

---------------------------------------------------------------------------
(* Lexical extraction: extractCsSymbol and extractCsMethod.                *)

\* (?:\s*///[^\n]*\n)*
DocLines ==
    ReStar(ReCat(<<ReStar(ReIn(Ws)), ReLit(<<"/","/","/">>), ReStar(ReNotIn({"\n"})),
                   ReLit(<<"\n">>)>>))

\* (?:\s*\[[^\]]*\]\s*\n)*
AttributeLines ==
    ReStar(ReCat(<<ReStar(ReIn(Ws)), ReLit(<<"[">>), ReStar(ReNotIn({"]"})), ReLit(<<"]">>),
                   ReStar(ReIn(Ws)), ReLit(<<"\n">>)>>))

DeclModifiers ==
    ReAlt(<<ReLit(<<"p","u","b","l","i","c">>),
            ReLit(<<"p","r","i","v","a","t","e">>),
            ReLit(<<"p","r","o","t","e","c","t","e","d">>),
            ReLit(<<"i","n","t","e","r","n","a","l">>),
            ReLit(<<"s","t","a","t","i","c">>),
            ReLit(<<"a","b","s","t","r","a","c","t">>),
            ReLit(<<"s","e","a","l","e","d">>),
            ReLit(<<"p","a","r","t","i","a","l">>),
            ReLit(<<"a","s","y","n","c">>),
            ReLit(<<"v","i","r","t","u","a","l">>),
            ReLit(<<"o","v","e","r","r","i","d","e">>),
            ReLit(<<"r","e","a","d","o","n","l","y">>),
            ReLit(<<"n","e","w">>)>>)

MethodModifiers ==
    ReAlt(<<ReLit(<<"p","u","b","l","i","c">>),
            ReLit(<<"p","r","i","v","a","t","e">>),
            ReLit(<<"p","r","o","t","e","c","t","e","d">>),
            ReLit(<<"i","n","t","e","r","n","a","l">>),
            ReLit(<<"s","t","a","t","i","c">>),
            ReLit(<<"a","b","s","t","r","a","c","t">>),
            ReLit(<<"s","e","a","l","e","d">>),
            ReLit(<<"p","a","r","t","i","a","l">>),
            ReLit(<<"a","s","y","n","c">>),
            ReLit(<<"v","i","r","t","u","a","l">>),
            ReLit(<<"o","v","e","r","r","i","d","e">>),
            ReLit(<<"n","e","w">>)>>)

DeclKeywords ==
    ReAlt(<<ReLit(<<"c","l","a","s","s">>),
            ReLit(<<"i","n","t","e","r","f","a","c","e">>),
            ReLit(<<"s","t","r","u","c","t">>),
            ReLit(<<"e","n","u","m">>),
            ReLit(<<"r","e","c","o","r","d">>),
            ReLit(<<"d","e","l","e","g","a","t","e">>)>>)

\* the first group of declPattern: doc lines and attribute lines
DeclPreamble == ReCat(<<DocLines, AttributeLines>>)

\* the second group of declPattern: indentation, modifiers, a declaration
\* keyword, the symbol name, and everything up to the next "{" or ";"
DeclHeader(symbolName) ==
    ReCat(<<ReStar(ReIn({" ", "\t"})),
            ReStar(ReCat(<<DeclModifiers, RePlus(ReIn(Ws))>>)),
            DeclKeywords,
            RePlus(ReIn(Ws)),
            ReLit(symbolName),
            ReStar(ReNotIn({"{", ";"}))>>)

\* [\w<>\[\],\s\.\?]
ReturnTypeChars == WordChars \cup Ws \cup {"<", ">", "[", "]", ",", ".", "?"}

\* the second group of methodPattern: indentation, modifiers, a return
\* type, the symbol name, optional generic parameters, the parameter list,
\* and everything up to the next "{" or ";"
MethodHeader(symbolName) ==
    ReCat(<<ReStar(ReIn({" ", "\t"})),
            ReStar(ReCat(<<MethodModifiers, RePlus(ReIn(Ws))>>)),
            RePlus(ReIn(ReturnTypeChars)),
            RePlus(ReIn(Ws)),
            ReLit(symbolName),
            ReStar(ReIn(Ws)),
            ReOpt(ReCat(<<ReLit(<<"<">>), ReStar(ReNotIn({">"})), ReLit(<<">">>)>>)),
            ReStar(ReIn(Ws)),
            ReLit(<<"(">>), ReStar(ReNotIn({")"})), ReLit(<<")">>),
            ReStar(ReNotIn({"{", ";"}))>>)

\* match.index + preamble.length - preamble.trimStart().length
DeclStartOf(source, m) ==
    m.index + (m.group1End - m.index)
        - Len(TrimStart(Substring(source, m.index, m.group1End)))

CsNull == [found |-> FALSE, text |-> <<>>, by |-> "null"]

CsText(t, by) == [found |-> TRUE, text |-> t, by |-> by]

\* the end of a brace-delimited declaration: findMatchingBrace from the brace
ThroughBrace(source, declStart, braceStart, endIdx) ==
    IF endIdx = -1 THEN CsNull
    ELSE CsText(TrimEnd(Substring(source, declStart, endIdx + 1)), "brace")

\* extractCsSymbol after the match: a semicolon before the brace, or no
\* brace, ends the declaration; otherwise the matching brace does
DeclEnd(source, declStart, braceStart, semiStart) ==
    IF semiStart # -1 /\ (braceStart = -1 \/ semiStart < braceStart)
    THEN CsText(TrimEnd(Substring(source, declStart, semiStart + 1)), "semicolon")
    ELSE IF braceStart = -1 THEN CsNull
    ELSE ThroughBrace(source, declStart, braceStart, findMatchingBrace(source, braceStart))

\* extractCsMethod after the match: the semicolon is looked for only when
\* no brace follows the match
MethodEnd(source, declStart, braceStart, semi) ==
    IF braceStart = -1
    THEN IF semi = -1 THEN CsNull
         ELSE CsText(TrimEnd(Substring(source, declStart, semi + 1)), "semicolon")
    ELSE ThroughBrace(source, declStart, braceStart, findMatchingBrace(source, braceStart))

DeclMatch(source, symbolName) == Exec(DeclPreamble, DeclHeader(symbolName), source)

MethodMatch(source, symbolName) == Exec(DocLines, MethodHeader(symbolName), source)

EndOfMatch(source, m, tier) ==
    IF tier = "type"
    THEN DeclEnd(source, DeclStartOf(source, m),
                 IndexOf(source, <<"{">>, m.end), IndexOf(source, <<";">>, m.end))
    ELSE MethodEnd(source, DeclStartOf(source, m),
                   IndexOf(source, <<"{">>, m.end), IndexOf(source, <<";">>, m.end))

MethodOf(source, m) == IF ~m.ok THEN CsNull ELSE EndOfMatch(source, m, "method")

extractCsMethod(source, symbolName) == MethodOf(source, MethodMatch(source, symbolName))

SymbolOf(source, symbolName, m) ==
    IF ~m.ok THEN extractCsMethod(source, symbolName) ELSE EndOfMatch(source, m, "type")

extractCsSymbol(source, symbolName) ==
    SymbolOf(source, symbolName, DeclMatch(source, symbolName))

\* Sources the extractor is run on: what precedes the declaration, its
\* header, its end, and what follows it.

PreDoc ==
    <<"/","/","/"," ","d","\n">>

PreAttribute ==
    <<"[","A","]","\n"," "," ">>

PreField ==
    <<"i","n","t"," ","y",";","\n">>

HeadClass ==
    <<"p","u","b","l","i","c"," ","c","l","a","s","s"," ","F","o","o">>

HeadRecord ==
    <<"r","e","c","o","r","d"," ","F","o","o","(","i","n","t"," ","X",")">>

HeadAbstractMethod ==
    <<"a","b","s","t","r","a","c","t"," ","v","o","i","d"," ","F","o","o","(",")">>

HeadGenericMethod ==
    <<" "," ","T"," ","F","o","o","<","T",">","(","T"," ","a",")"," ","w","h","e","r","e"," ","T"," ",":"," ","B">>

HeadOther ==
    <<"c","l","a","s","s"," ","B","a","r">>

EndSemicolon ==
    <<";">>

EndBlock ==
    <<" ","{"," ","}">>

EndBlockString ==
    <<" ","{"," ","s"," ","="," ","\"","}","\"",";"," ","}">>

EndOpen ==
    <<" ","{">>

SufClass ==
    <<"\n","c","l","a","s","s"," ","B","a","z"," ","{"," ","}">>

SufField ==
    <<"\n","i","n","t"," ","z",";">>

CsPrefixes == {<<>>, PreDoc, PreAttribute, PreField, PreDoc \o PreAttribute}

CsHeaders == {HeadClass, HeadRecord, HeadAbstractMethod, HeadGenericMethod, HeadOther}

CsEnds == {<<>>, EndSemicolon, EndBlock, EndBlockString, EndOpen}

CsSuffixes == {<<>>, SufClass, SufField}

CsSources == {a \o b \o c \o d : a \in CsPrefixes, b \in CsHeaders, c \in CsEnds, d \in CsSuffixes}

CsSymbols == {<<"F","o","o">>, <<"B","a","r">>}

CsInit ==
    /\ csSource \in CsSources
    /\ csSymbol \in CsSymbols
    /\ csTier = "none"
    /\ csDeclStart = 0
    /\ csAfter = 0
    /\ csResult = <<>>
    /\ cpc = "start"
    /\ ApplyIdle
    /\ env = <<>>
    /\ run = 0
    /\ MainIdle
    /\ ScanIdle
    /\ TsIdle
    /\ BraceIdle

csFrame == <<applyVars, mainVars, scanVars, tsVars, braceVars>>

CsMatched(m, tier) ==
    /\ m.ok
    /\ csTier' = tier
    /\ csDeclStart' = DeclStartOf(csSource, m)
    /\ csAfter' = m.end
    /\ cpc' = "matched"
    /\ UNCHANGED <<csSource, csSymbol, csResult>>
    /\ UNCHANGED csFrame

\* declPattern matches
CsTypeLevel ==
    /\ cpc = "start"
    /\ CsMatched(DeclMatch(csSource, csSymbol), "type")

\* declPattern does not match, methodPattern does
CsMethod ==
    /\ cpc = "start"
    /\ ~DeclMatch(csSource, csSymbol).ok
    /\ CsMatched(MethodMatch(csSource, csSymbol), "method")

\* neither pattern matches: null
CsNoMatch ==
    /\ cpc = "start"
    /\ ~DeclMatch(csSource, csSymbol).ok
    /\ ~MethodMatch(csSource, csSymbol).ok
    /\ csResult' = CsNull
    /\ cpc' = "done"
    /\ UNCHANGED <<csSource, csSymbol, csTier, csDeclStart, csAfter>>
    /\ UNCHANGED csFrame

\* the end of the matched declaration is looked for and the text returned
CsEnd ==
    /\ cpc = "matched"
    /\ csResult' =
          (IF csTier = "type"
           THEN DeclEnd(csSource, csDeclStart, IndexOf(csSource, <<"{">>, csAfter),
                        IndexOf(csSource, <<";">>, csAfter))
           ELSE MethodEnd(csSource, csDeclStart, IndexOf(csSource, <<"{">>, csAfter),
                          IndexOf(csSource, <<";">>, csAfter)))
    /\ cpc' = "done"
    /\ UNCHANGED <<csSource, csSymbol, csTier, csDeclStart, csAfter>>
    /\ UNCHANGED csFrame

CsNext ==
    \/ CsTypeLevel
    \/ CsMethod
    \/ CsNoMatch
    \/ CsEnd

SpecCs == CsInit /\ [][CsNext]_vars

---------------------------------------------------------------------------
(* Claims about the lexical extractor.                                     *)

\* the text from the declaration start through offset last, trimmed at the end
DeclarationThrough(last) == TrimEnd(Substring(csSource, csDeclStart, last + 1))

FirstSemicolon == IndexOf(csSource, <<";">>, csAfter)

FirstBrace == IndexOf(csSource, <<"{">>, csAfter)

SemicolonFirst == FirstSemicolon # -1 /\ (FirstBrace = -1 \/ FirstSemicolon < FirstBrace)

\* C12: lexical terminator rule.  For a header match of either tier, when
\* the first ";" after the match comes before the first "{" (or there is no
\* "{") the extracted text runs from the declaration start through that
\* semicolon; otherwise it runs through the brace that matches the first "{".
C12_TerminatorRule ==
    (cpc = "done" /\ csTier # "none") =>
        /\ SemicolonFirst =>
              /\ csResult.found
              /\ csResult.text = DeclarationThrough(FirstSemicolon)
        /\ (~SemicolonFirst /\ FirstBrace # -1 /\ findMatchingBrace(csSource, FirstBrace) # -1) =>
              /\ csResult.found
              /\ csResult.text = DeclarationThrough(findMatchingBrace(csSource, FirstBrace))

=============================================================================
